---- MODULE Spec2Model ----
(***************************************************************************)
(* FS.Collection (common.js): construction of a file collection, the       *)
(* filter (admission) rules enforced by the deny functions of its          *)
(* ".files" collection, and the sync callbacks it hands to every store.    *)
(*                                                                         *)
(* Strings are sequences of tokens (<<"a", ".", "PNG">> is "a.PNG");       *)
(* JavaScript values carry their type in the field t.                      *)
(***************************************************************************)
EXTENDS Integers, Sequences, FiniteSets, TLC

VARIABLES
  insecure,    \* Package.insecure is in use (fixed for a run of the process)
  registry,    \* FS._collections: collection name -> self.options, or NoColl
  callbacks,   \* names of the stores that were given sync callbacks
  observed,    \* FS.FileWorker.observe(this) was called
  validators,  \* operation kind -> an allow function is registered
  files,       \* self.files: _id -> file record
  nextId,      \* the next _id the ".files" collection hands out
  inflight,    \* sync update callbacks between their findOne and their update
  last         \* the last call and how it ended

vars == <<insecure, registry, callbacks, observed, validators, files, nextId,
          inflight, last>>

(***************************************************************************)
(* Bounds                                                                  *)
(***************************************************************************)
MaxFiles == 2
MaxInflight == 1
MaxRacing == 2

(***************************************************************************)
(* JavaScript values                                                       *)
(***************************************************************************)
Undefined == [t |-> "undefined"]
Null == [t |-> "null"]
Num(n) == [t |-> "number", n |-> n]
Str(s) == [t |-> "string", s |-> s]
Arr(v) == [t |-> "array", v |-> v]
Obj(e, c) == [t |-> "object", extensions |-> e, contentTypes |-> c]
Filter(a, d, m) == [t |-> "object", allow |-> a, deny |-> d, maxSize |-> m]

\* JavaScript truthiness, as used by the `!x ||` tests
Truthy(v) ==
  CASE v.t = "undefined" -> FALSE
    [] v.t = "null" -> FALSE
    [] v.t = "number" -> v.n # 0
    [] v.t = "string" -> v.s # <<>>
    [] OTHER -> TRUE

\* Match.test(v, Object): a plain object
IsPlainObject(v) == v.t = "object"

\* _.isArray(v)
IsArray(v) == v.t = "array"

\* String.prototype.toLowerCase on one token
LowerToken(c) ==
  CASE c = "PNG" -> "png"
    [] c = "EXE" -> "exe"
    [] c = "A" -> "a"
    [] OTHER -> c

\* String.prototype.toLowerCase
ToLowerCase(s) == [i \in 1..Len(s) |-> LowerToken(s[i])]

(***************************************************************************)
(* Filter option normalization (FS.Collection constructor)                 *)
(***************************************************************************)
\* filter.allow / filter.deny: anything but a plain object becomes {}
NormalizeRuleObject(v) ==
  IF ~Truthy(v) \/ ~IsPlainObject(v) THEN Obj(Undefined, Undefined) ELSE v

\* filter.maxSize: anything but a non-zero number becomes null
NormalizeMaxSize(v) ==
  IF ~Truthy(v) \/ v.t # "number" THEN Null ELSE v

\* entry.toLowerCase() is a TypeError for an entry that is no string
ExtensionsThrow(v) ==
  Truthy(v) /\ IsArray(v) /\ \E i \in 1..Len(v.v) : v.v[i].t # "string"

\* NormalizeExtensions that keeps the letter case of the entries
NormalizeExtensions_NoLower(v) ==
  IF ~Truthy(v) \/ ~IsArray(v) THEN Arr(<<>>) ELSE v

\* allow.extensions / deny.extensions: [] unless an array, else lowercased
NormalizeExtensions(v) ==
  IF ~Truthy(v) \/ ~IsArray(v)
  THEN Arr(<<>>)
  ELSE Arr([i \in 1..Len(v.v) |-> Str(ToLowerCase(v.v[i].s))])

\* allow.contentTypes / deny.contentTypes: [] unless an array, else untouched
NormalizeContentTypes(v) ==
  IF ~Truthy(v) \/ ~IsArray(v) THEN Arr(<<>>) ELSE v

\* A truthy filter that is a number or a string has no allow property to hold
\* {}; a non-string extension entry has no toLowerCase: both end in a
\* TypeError.
NormalizeThrows(f) ==
  /\ Truthy(f)
  /\ \/ f.t \in {"number", "string"}
     \/ ExtensionsThrow(NormalizeRuleObject(f.allow).extensions)
     \/ ExtensionsThrow(NormalizeRuleObject(f.deny).extensions)

\* self.options.filter after the normalization block
NormalizeFilter(f) ==
  IF ~Truthy(f)
  THEN f
  ELSE LET a == NormalizeRuleObject(f.allow)
           d == NormalizeRuleObject(f.deny)
       IN  Filter(Obj(NormalizeExtensions(a.extensions),
                      NormalizeContentTypes(a.contentTypes)),
                  Obj(NormalizeExtensions(d.extensions),
                      NormalizeContentTypes(d.contentTypes)),
                  NormalizeMaxSize(f.maxSize))

(***************************************************************************)
(* Filter Engine: FS.File.prototype.fileIsAllowed                          *)
(***************************************************************************)
RECURSIVE LastDot(_, _)
\* index of the last "." among the first n tokens of s, 0 if there is none
LastDot(s, n) ==
  IF n = 0 THEN 0 ELSE IF s[n] = "." THEN n ELSE LastDot(s, n - 1)

\* the part of the name after its last dot, "" without a dot
GetExtension(name) ==
  LET d == LastDot(name, Len(name))
  IN  IF d = 0 THEN <<>> ELSE SubSeq(name, d + 1, Len(name))

\* a content type matches a pattern that equals it or is "<major>/*"
ContentTypeMatches(type, pattern) ==
  \/ pattern = Str(type)
  \/ /\ pattern.t = "string"
     /\ Len(pattern.s) = 3 /\ Len(type) = 3
     /\ pattern.s[3] = "*" /\ pattern.s[2] = "/"
     /\ pattern.s[1] = type[1]

InList(list, x) == \E i \in 1..Len(list.v) : list.v[i] = x

MatchesAny(list, type) ==
  \E i \in 1..Len(list.v) : ContentTypeMatches(type, list.v[i])

\* IsAllowed that accepts what the allow lists name before it asks the deny
\* lists
IsAllowed_AllowFirst(meta, ruleSet) ==
  IF ~Truthy(ruleSet)
  THEN TRUE
  ELSE LET ext == Str(ToLowerCase(GetExtension(meta.name)))
       IN  \/ /\ ruleSet.maxSize.t = "number" => meta.size <= ruleSet.maxSize.n
              /\ \/ InList(ruleSet.allow.extensions, ext)
                 \/ MatchesAny(ruleSet.allow.contentTypes, meta.type)
           \/ /\ ~InList(ruleSet.deny.extensions, ext)
              /\ ~MatchesAny(ruleSet.deny.contentTypes, meta.type)
              /\ (ruleSet.maxSize.t = "number" => meta.size <= ruleSet.maxSize.n)
              /\ (ruleSet.allow.extensions.v # <<>>
                    => InList(ruleSet.allow.extensions, ext))
              /\ (ruleSet.allow.contentTypes.v # <<>>
                    => MatchesAny(ruleSet.allow.contentTypes, meta.type))

\* isAllowed(fileMeta, ruleSet)
IsAllowed(meta, ruleSet) ==
  IF ~Truthy(ruleSet)
  THEN TRUE
  ELSE LET ext == Str(ToLowerCase(GetExtension(meta.name)))
       IN  /\ ~InList(ruleSet.deny.extensions, ext)
           /\ ~MatchesAny(ruleSet.deny.contentTypes, meta.type)
           /\ (ruleSet.maxSize.t = "number" => meta.size <= ruleSet.maxSize.n)
           /\ (ruleSet.allow.extensions.v # <<>>
                 => InList(ruleSet.allow.extensions, ext))
           /\ (ruleSet.allow.contentTypes.v # <<>>
                 => MatchesAny(ruleSet.allow.contentTypes, meta.type))

(***************************************************************************)
(* Inputs                                                                  *)
(***************************************************************************)
CollName == "images"
NoColl == [t |-> "undefined"]

StoreNames == {"s3", "local"}
\* a filter option that denies the extension "EXE"
DenyExeFilter ==
  Filter(Undefined, Obj(Arr(<<Str(<<"EXE">>)>>), Undefined), Undefined)

\* the options objects the constructor is called with
OptionsGiven ==
  {[stores |-> <<>>, filter |-> DenyExeFilter],
   [stores |-> <<"s3">>, filter |-> Null],
   [stores |-> <<"s3", "local">>, filter |-> DenyExeFilter]}

\* what a store reports about a file, and what a client says about its file
PngInfo ==
  [name |-> <<"a", ".", "PNG">>, type |-> <<"image", "/", "png">>,
   size |-> 1, utime |-> 1]
ExeInfo ==
  [name |-> <<"b", ".", "exe">>, type |-> <<"application", "/", "exe">>,
   size |-> 2, utime |-> 2]
Infos == {PngInfo, ExeInfo}

\* the ids a store gives its copies
StoreIds == {"k1", "k2"}

Kinds == {"insert", "update", "remove"}

\* the kinds the application registers allow functions for in one call
AllowSets == {{"insert"}, {"insert", "update", "remove"}}

\* field sets of the $set modifiers an untrusted client sends
UpdateFieldSets == {{"name"}}

\* the same with a client that also sets copies, naming a store of its own
ClientFieldSets == UpdateFieldSets \cup {{"copies"}}
ClientStore == "ftp"

\* what is seen of a call: the operation, the store and store id of a sync
\* callback, the file it was about, the number of files removed, how it ended
Call(op, store, storeId, id, n, result) ==
  [op |-> op, store |-> store, storeId |-> storeId, id |-> id, n |-> n,
   result |-> result]

(***************************************************************************)
(* The collection                                                          *)
(***************************************************************************)
ChunkSize == 131072

\* self.options of the registered collection
options == registry[CollName]

Constructed == registry[CollName] # NoColl

Range(s) == {s[i] : i \in 1..Len(s)}

\* Selector with the store name left out of the key
Selector_AnyStore(store, storeId) ==
  {id \in DOMAIN files :
     \E st \in DOMAIN files[id].copies : files[id].copies[st]._id = storeId}

\* documents of self.files that match {'copies.<store>._id': storeId}
Selector(store, storeId) ==
  {id \in DOMAIN files :
     /\ store \in DOMAIN files[id].copies
     /\ files[id].copies[store]._id = storeId}

\* DenyInsert that denies nothing
DenyInsert_Never(fsFile) == FALSE

\* files.deny insert: function(userId, fsFile)
DenyInsert(fsFile) == ~IsAllowed(fsFile, options.filter)

\* files.deny update: function(userId, fsFile, fields, modifier); fsFile is
\* the document as stored, fields and modifier are not looked at
DenyUpdate(fsFile, fields, modifier) == ~IsAllowed(fsFile, options.filter)

\* {$set: modifier} applied to a document
ApplySet(doc, modifier) ==
  [f \in DOMAIN doc |-> IF f \in DOMAIN modifier THEN modifier[f] ELSE doc[f]]

\* the $set document of an untrusted update: the named fields of info, and
\* for copies one copy, with the metadata of info, in the client's store
Modifier(fields, info) ==
  [f \in fields |->
     IF f = "copies"
     THEN (ClientStore :> [_id |-> "k1", name |-> info.name,
                           type |-> info.type, size |-> info.size,
                           utime |-> info.utime])
     ELSE info[f]]

Init ==
  /\ insecure \in BOOLEAN
  /\ registry = [n \in {CollName} |-> NoColl]
  /\ callbacks = {}
  /\ observed = FALSE
  /\ validators = [k \in Kinds |-> FALSE]
  /\ files = <<>>
  /\ nextId = 1
  /\ inflight = {}
  /\ last = Call("none", "-", "-", 0, 0, "ok")

Failed(op, result) ==
  /\ last' = Call(op, "-", "-", 0, 0, result)
  /\ UNCHANGED <<insecure, registry, callbacks, observed, validators, files,
                 nextId, inflight>>

\* Register that adds the allow functions whether or not insecure is in use
Register_AlwaysAllow(stores, filter) ==
  IF NormalizeThrows(filter)
  THEN Failed("construct", "TypeError")
  ELSE /\ registry' = [registry EXCEPT ![CollName] =
                         [filter |-> NormalizeFilter(filter),
                          stores |-> stores,
                          chunkSize |-> ChunkSize]]
       /\ validators' = [k \in Kinds |-> TRUE]
       /\ callbacks' = Range(stores)
       /\ observed' = TRUE
       /\ last' = Call("construct", "-", "-", 0, 0, "ok")
       /\ UNCHANGED <<insecure, files, nextId, inflight>>

\* the constructor from the filter normalization on
Register(stores, filter) ==
  IF NormalizeThrows(filter)
  THEN Failed("construct", "TypeError")
  ELSE /\ registry' = [registry EXCEPT ![CollName] =
                         [filter |-> NormalizeFilter(filter),
                          stores |-> stores,
                          chunkSize |-> ChunkSize]]
       /\ validators' = IF insecure THEN [k \in Kinds |-> TRUE]
                                    ELSE validators
       /\ callbacks' = Range(stores)
       /\ observed' = TRUE
       /\ last' = Call("construct", "-", "-", 0, 0, "ok")
       /\ UNCHANGED <<insecure, files, nextId, inflight>>

\* Construct without the test for an empty store list
Construct_NoStoreCheck(stores, filter) ==
  IF Constructed
  THEN Failed("construct", "DuplicateName")
  ELSE Register(stores, filter)

\* new FS.Collection(name, {stores: stores, filter: filter}) on the server.
\* Meteor.Collection throws for a name that already has a collection, so a
\* name is registered once.
Construct(stores, filter) ==
  IF stores = <<>>
  THEN Failed("construct", "ConfigurationError")
  ELSE IF Constructed
  THEN Failed("construct", "DuplicateName")
  ELSE Register(stores, filter)

\* collection.allow({<kind>: function () { return true; }, ...}) by the
\* application
Allow(kinds) ==
  /\ Constructed
  /\ \E k \in kinds : ~validators[k]
  /\ validators' = [k \in Kinds |-> validators[k] \/ k \in kinds]
  /\ last' = Call("allow", "-", "-", 0, 0, "ok")
  /\ UNCHANGED <<insecure, registry, callbacks, observed, files, nextId,
                 inflight>>

\* NewFile that claims a copy in the store "s3"
NewFile_WithCopy(info) ==
  [name |-> info.name, type |-> info.type, size |-> info.size,
   utime |-> info.utime,
   copies |-> ("s3" :> [_id |-> "k1", name |-> info.name, type |-> info.type,
                        size |-> info.size, utime |-> info.utime])]

\* the file record a client inserts for a new file
NewFile(info) ==
  [name |-> info.name, type |-> info.type, size |-> info.size,
   utime |-> info.utime, copies |-> <<>>]

\* insert by an untrusted caller: deny functions, then allow functions
Insert(info) ==
  /\ Constructed
  /\ nextId <= MaxFiles
  /\ IF DenyInsert(NewFile(info))
     THEN /\ last' = Call("insert", "-", "-", 0, 0, "AdmissionDenied")
          /\ UNCHANGED <<files, nextId>>
     ELSE IF ~validators["insert"]
     THEN /\ last' = Call("insert", "-", "-", 0, 0,
                          "AuthorizationDenied")
          /\ UNCHANGED <<files, nextId>>
     ELSE /\ files' = (nextId :> NewFile(info)) @@ files
          /\ nextId' = nextId + 1
          /\ last' = Call("insert", "-", "-", nextId, 0, "ok")
  /\ UNCHANGED <<insecure, registry, callbacks, observed, validators,
                 inflight>>

\* update(id, {$set: ...}) by an untrusted caller
Update(id, fields, info) ==
  /\ Constructed
  /\ id \in DOMAIN files
  /\ IF DenyUpdate(files[id], fields, Modifier(fields, info))
     THEN /\ last' = Call("update", "-", "-", id, 0,
                          "AdmissionDenied")
          /\ UNCHANGED files
     ELSE IF ~validators["update"]
     THEN /\ last' = Call("update", "-", "-", id, 0,
                          "AuthorizationDenied")
          /\ UNCHANGED files
     ELSE /\ files' = [files EXCEPT
                         ![id] = ApplySet(@, Modifier(fields, info))]
          /\ last' = Call("update", "-", "-", id, 0, "ok")
  /\ UNCHANGED <<insecure, registry, callbacks, observed, validators, nextId,
                 inflight>>

\* remove(id) by an untrusted caller
Remove(id) ==
  /\ Constructed
  /\ id \in DOMAIN files
  /\ IF ~validators["remove"]
     THEN /\ last' = Call("remove", "-", "-", id, 0,
                          "AuthorizationDenied")
          /\ UNCHANGED files
     ELSE /\ files' = [i \in DOMAIN files \ {id} |-> files[i]]
          /\ last' = Call("remove", "-", "-", id, 1, "ok")
  /\ UNCHANGED <<insecure, registry, callbacks, observed, validators, nextId,
                 inflight>>

(***************************************************************************)
(* Sync callbacks: store.defineSyncCallbacks({insert, update, remove})     *)
(***************************************************************************)
\* InsertFileInfo without the assignment to fileInfo.copies[store.name]
InsertFileInfo_NoCopy(store, storeId, info) ==
  [name |-> info.name, type |-> info.type, size |-> info.size,
   utime |-> info.utime, copies |-> <<>>]

\* fileInfo of the insert callback
InsertFileInfo(store, storeId, info) ==
  [name |-> info.name, type |-> info.type, size |-> info.size,
   utime |-> info.utime,
   copies |-> (store :> [_id |-> storeId, name |-> info.name,
                         type |-> info.type, size |-> info.size,
                         utime |-> info.utime])]

\* UpdateFileInfo without copies: the other stores' copies stay
UpdateFileInfo_KeepCopies(store, storeId, info) ==
  [name |-> info.name, type |-> info.type, size |-> info.size,
   utime |-> info.utime]

\* UpdateFileInfo that sets the copies only
UpdateFileInfo_CopyOnly(store, storeId, info) ==
  [copies |-> (store :> [_id |-> storeId, name |-> info.name,
                         type |-> info.type, size |-> info.size,
                         utime |-> info.utime])]

\* fileInfo of the update callback
UpdateFileInfo(store, storeId, info) ==
  [name |-> info.name, type |-> info.type, size |-> info.size,
   utime |-> info.utime,
   copies |-> (store :> [_id |-> storeId, name |-> info.name,
                         type |-> info.type, size |-> info.size,
                         utime |-> info.utime])]

\* self.insert(fsFile) on the server: the deny functions are not asked
ServerInsert(fsFile) == (nextId :> fsFile) @@ files

\* SyncInsert that asks the filter first
SyncInsert_Filtered(store, storeId, info) ==
  /\ store \in callbacks
  /\ nextId <= MaxFiles
  /\ IF ~IsAllowed(info, options.filter)
     THEN /\ last' = Call("syncInsert", store, storeId, 0, 0,
                          "AdmissionDenied")
          /\ UNCHANGED <<files, nextId>>
     ELSE /\ files' = (nextId :> InsertFileInfo(store, storeId, info)) @@ files
          /\ nextId' = nextId + 1
          /\ last' = Call("syncInsert", store, storeId, nextId, 0, "ok")
  /\ UNCHANGED <<insecure, registry, callbacks, observed, validators,
                 inflight>>

\* insert: function(storeId, info, buffer)
SyncInsert(store, storeId, info) ==
  /\ store \in callbacks
  /\ nextId <= MaxFiles
  /\ files' = ServerInsert(InsertFileInfo(store, storeId, info))
  /\ nextId' = nextId + 1
  /\ last' = Call("syncInsert", store, storeId, nextId, 0, "ok")
  /\ UNCHANGED <<insecure, registry, callbacks, observed, validators,
                 inflight>>

\* update: function(storeId, info), up to and including self.findOne(selector),
\* with at most cap callbacks between their findOne and their update
SyncUpdateFindUpTo(cap, store, storeId, info) ==
  /\ store \in callbacks
  /\ IF Selector(store, storeId) = {}
     THEN /\ last' = Call("syncUpdate", store, storeId, 0, 0, "miss")
          /\ UNCHANGED inflight
     ELSE /\ Cardinality(inflight) < cap
          /\ \E id \in Selector(store, storeId) :
               /\ inflight' = inflight \cup
                    {[store |-> store, storeId |-> storeId, info |-> info,
                      id |-> id]}
               /\ last' = Call("syncFind", store, storeId, id, 0, "ok")
  /\ UNCHANGED <<insecure, registry, callbacks, observed, validators, files,
                 nextId>>

SyncUpdateFind(store, storeId, info) ==
  SyncUpdateFindUpTo(MaxInflight, store, storeId, info)

\* fsFile.update({$set: fileInfo}) on the server, for the document found
ServerUpdate(id, fileInfo) ==
  IF id \in DOMAIN files
  THEN [files EXCEPT ![id] = ApplySet(@, fileInfo)]
  ELSE files

\* SyncUpdateWrite as an upsert: a document that is gone is written anew
SyncUpdateWrite_Upsert(task) ==
  /\ task \in inflight
  /\ inflight' = inflight \ {task}
  /\ files' = (task.id :> UpdateFileInfo(task.store, task.storeId, task.info))
                 @@ files
  /\ last' = Call("syncUpdate", task.store, task.storeId, task.id, 0, "ok")
  /\ UNCHANGED <<insecure, registry, callbacks, observed, validators, nextId>>

\* SyncUpdateWrite that updates every document the selector matches
SyncUpdateWrite_Multi(task) ==
  /\ task \in inflight
  /\ inflight' = inflight \ {task}
  /\ files' = [i \in DOMAIN files |->
                 IF i = task.id \/ i \in Selector(task.store, task.storeId)
                 THEN ApplySet(files[i], UpdateFileInfo(task.store,
                                                        task.storeId,
                                                        task.info))
                 ELSE files[i]]
  /\ last' = Call("syncUpdate", task.store, task.storeId, task.id, 0,
                  IF task.id \in DOMAIN files THEN "ok" ELSE "gone")
  /\ UNCHANGED <<insecure, registry, callbacks, observed, validators, nextId>>

\* update: function(storeId, info), from fileInfo to fsFile.update
SyncUpdateWrite(task) ==
  /\ task \in inflight
  /\ inflight' = inflight \ {task}
  /\ files' = ServerUpdate(task.id,
                           UpdateFileInfo(task.store, task.storeId, task.info))
  /\ last' = Call("syncUpdate", task.store, task.storeId, task.id, 0,
                  IF task.id \in DOMAIN files THEN "ok" ELSE "gone")
  /\ UNCHANGED <<insecure, registry, callbacks, observed, validators, nextId>>

\* self.remove(selector) on the server
ServerRemove(ids) == [i \in DOMAIN files \ ids |-> files[i]]

\* SyncRemove that removes the synchronized copy only
SyncRemove_OnlyCopy(store, storeId) ==
  /\ store \in callbacks
  /\ files' = [i \in DOMAIN files |->
                 IF i \in Selector(store, storeId)
                 THEN [files[i] EXCEPT !.copies =
                         [st \in DOMAIN @ \ {store} |-> @[st]]]
                 ELSE files[i]]
  /\ last' = Call("syncRemove", store, storeId, 0,
                  Cardinality(Selector(store, storeId)), "ok")
  /\ UNCHANGED <<insecure, registry, callbacks, observed, validators, nextId,
                 inflight>>

\* remove: function(storeId)
SyncRemove(store, storeId) ==
  /\ store \in callbacks
  /\ files' = ServerRemove(Selector(store, storeId))
  /\ last' = Call("syncRemove", store, storeId, 0,
                  Cardinality(Selector(store, storeId)), "ok")
  /\ UNCHANGED <<insecure, registry, callbacks, observed, validators, nextId,
                 inflight>>

(***************************************************************************)
(* File Worker: stores a copy of a file in a store that has none           *)
(***************************************************************************)
FileWorkerCopy(id, store, storeId) ==
  /\ observed
  /\ id \in DOMAIN files
  /\ store \in Range(options.stores)
  /\ store \notin DOMAIN files[id].copies
  /\ Selector(store, storeId) = {}
  /\ files' = [files EXCEPT ![id].copies =
                 (store :> [_id |-> storeId, name |-> files[id].name,
                            type |-> files[id].type, size |-> files[id].size,
                            utime |-> files[id].utime]) @@ @]
  /\ last' = Call("copy", store, storeId, id, 0, "ok")
  /\ UNCHANGED <<insecure, registry, callbacks, observed, validators, nextId,
                 inflight>>

Next ==
  \/ \E given \in OptionsGiven : Construct(given.stores, given.filter)
  \/ \E kinds \in AllowSets : Allow(kinds)
  \/ \E info \in Infos : Insert(info)
  \/ \E id \in 1..MaxFiles, fields \in UpdateFieldSets, info \in Infos :
       Update(id, fields, info)
  \/ \E id \in 1..MaxFiles : Remove(id)
  \/ \E store \in StoreNames, storeId \in StoreIds, info \in Infos :
       SyncInsert(store, storeId, info)
  \/ \E store \in StoreNames, storeId \in StoreIds, info \in Infos :
       SyncUpdateFind(store, storeId, info)
  \/ \E task \in inflight : SyncUpdateWrite(task)
  \/ \E store \in StoreNames, storeId \in StoreIds :
       SyncRemove(store, storeId)
  \/ \E id \in 1..MaxFiles, store \in StoreNames, storeId \in StoreIds :
       FileWorkerCopy(id, store, storeId)

Spec == Init /\ [][Next]_vars

(***************************************************************************)
(* The collection with untrusted callers only, whose modifiers may also    *)
(* set copies                                                              *)
(***************************************************************************)
NextClient ==
  \/ \E given \in OptionsGiven : Construct(given.stores, given.filter)
  \/ \E kinds \in AllowSets : Allow(kinds)
  \/ \E info \in Infos : Insert(info)
  \/ \E id \in 1..MaxFiles, fields \in ClientFieldSets, info \in Infos :
       Update(id, fields, info)
  \/ \E id \in 1..MaxFiles : Remove(id)

SpecClient == Init /\ [][NextClient]_vars

(***************************************************************************)
(* The collection built with one store and any of a range of filter        *)
(* options, well-formed and malformed, and the inserts of untrusted        *)
(* callers                                                                 *)
(***************************************************************************)
FilterStores == <<"s3">>

Exe == Str(<<"exe">>)
ExeUpper == Str(<<"EXE">>)
Png == Str(<<"png">>)
PngUpper == Str(<<"PNG">>)
AnyImage == Str(<<"image", "/", "*">>)
AppExe == Str(<<"application", "/", "exe">>)

\* deny.extensions in lower case
DenyExeLowerFilter == Filter(Undefined, Obj(Arr(<<Exe>>), Undefined), Undefined)

\* "exe" in allow.extensions and in deny.extensions, sizes up to 10
BothListsFilter ==
  Filter(Obj(Arr(<<ExeUpper, Png>>), Undefined), Obj(Arr(<<Exe>>), Undefined),
         Num(10))

\* the same in another order and letter case
BothListsSwappedFilter ==
  Filter(Obj(Arr(<<PngUpper, Exe>>), Undefined),
         Obj(Arr(<<ExeUpper>>), Undefined), Num(10))

\* "application/exe" in allow.contentTypes and in deny.contentTypes, sizes up
\* to 5
BothTypesFilter ==
  Filter(Obj(Undefined, Arr(<<AnyImage, AppExe>>)),
         Obj(Undefined, Arr(<<AppExe>>)), Num(5))

\* the same in another order
BothTypesSwappedFilter ==
  Filter(Obj(Undefined, Arr(<<AppExe, AnyImage>>)),
         Obj(Undefined, Arr(<<AppExe>>)), Num(5))

\* sub-fields of the wrong type
WrongTypesFilter == Filter(Exe, Obj(Exe, Num(5)), Str(<<"10">>))

\* lists with entries that are no strings
NumberExtensionFilter ==
  Filter(Obj(Arr(<<Num(5)>>), Undefined), Undefined, Undefined)
NumberContentTypeFilter ==
  Filter(Undefined, Obj(Undefined, Arr(<<Num(5)>>)), Undefined)

\* a filter that is no object
StringFilter == Str(<<"exe">>)

\* the filter options the constructor is called with
FiltersGiven ==
  {Null, DenyExeFilter, DenyExeLowerFilter, BothListsFilter,
   BothListsSwappedFilter, BothTypesFilter, BothTypesSwappedFilter,
   WrongTypesFilter, NumberExtensionFilter, NumberContentTypeFilter,
   StringFilter}

UpperExeInfo ==
  [name |-> <<"b", ".", "EXE">>, type |-> <<"application", "/", "exe">>,
   size |-> 2, utime |-> 3]
BigPngInfo ==
  [name |-> <<"a", ".", "png">>, type |-> <<"image", "/", "png">>,
   size |-> 9, utime |-> 4]

\* the files untrusted callers ask to insert
Candidates == {PngInfo, ExeInfo, UpperExeInfo, BigPngInfo}

NextFilter ==
  \/ \E filter \in FiltersGiven : Construct(FilterStores, filter)
  \/ \E kinds \in AllowSets : Allow(kinds)
  \/ \E info \in Candidates : Insert(info)
  \/ \E id \in 1..MaxFiles : Remove(id)

SpecFilter == Init /\ [][NextFilter]_vars

(***************************************************************************)
(* Sync update callbacks of the two stores of a collection that run at the *)
(* same time for a file both stores hold                                   *)
(***************************************************************************)
RaceOptions ==
  [filter |-> NormalizeFilter(DenyExeFilter), stores |-> <<"s3", "local">>,
   chunkSize |-> ChunkSize]

\* a file that store s3 reported and the file worker copied to store local
RaceFile ==
  [InsertFileInfo("s3", "k1", PngInfo) EXCEPT
     !.copies = ("local" :> [_id |-> "k2", name |-> PngInfo.name,
                             type |-> PngInfo.type, size |-> PngInfo.size,
                             utime |-> PngInfo.utime]) @@ @]

InitRace ==
  /\ insecure \in BOOLEAN
  /\ registry = [n \in {CollName} |-> RaceOptions]
  /\ callbacks = Range(RaceOptions.stores)
  /\ observed = TRUE
  /\ validators = [k \in Kinds |-> insecure]
  /\ files = (1 :> RaceFile)
  /\ nextId = 2
  /\ inflight = {}
  /\ last = Call("copy", "local", "k2", 1, 0, "ok")

NextRace ==
  \/ \E store \in StoreNames, storeId \in StoreIds, info \in Infos :
       SyncUpdateFindUpTo(MaxRacing, store, storeId, info)
  \/ \E task \in inflight : SyncUpdateWrite(task)
  \/ \E id \in 1..MaxFiles, store \in StoreNames, storeId \in StoreIds :
       FileWorkerCopy(id, store, storeId)

SpecRace == InitRace /\ [][NextRace]_vars

(***************************************************************************)
(* Properties                                                              *)
(***************************************************************************)
\* the copy descriptor a sync callback writes for (storeId, info)
Descriptor(storeId, info) ==
  [_id |-> storeId, name |-> info.name, type |-> info.type,
   size |-> info.size, utime |-> info.utime]

\* a file whose copies[store] descriptor has the id storeId
HoldsCopy(file, store, storeId) ==
  store \in DOMAIN file.copies /\ file.copies[store]._id = storeId

\* top-level name, type, size and utime of a file equal those of info
MirrorsInfo(file, info) ==
  /\ file.name = info.name
  /\ file.type = info.type
  /\ file.size = info.size
  /\ file.utime = info.utime

\* C1: in every reachable state every file record of the collection passes
\* the filter of the collection on its current name, type and size.
C1_PersistedFilesPassFilter ==
  Constructed => \A id \in DOMAIN files : IsAllowed(files[id], options.filter)

\* C2: an untrusted update whose merged result (the stored record with the
\* modifier applied) is disallowed is rejected and changes nothing.
C2_UpdateChecksMergedMetadata ==
  [][\A id \in DOMAIN files, fields \in UpdateFieldSets, info \in Infos :
       (/\ Update(id, fields, info)
        /\ ~IsAllowed(ApplySet(files[id], Modifier(fields, info)),
                      options.filter))
       => (files' = files /\ last'.result # "ok")]_vars

\* C3: a sync update callback that commits a change of name, type or size
\* commits only a record that passes the filter.
C3_TrustedMetadataChangeIsFiltered ==
  [][\A task \in inflight :
       (/\ SyncUpdateWrite(task)
        /\ task.id \in DOMAIN files
        /\ \/ files'[task.id].name # files[task.id].name
           \/ files'[task.id].type # files[task.id].type
           \/ files'[task.id].size # files[task.id].size)
       => IsAllowed(files'[task.id], options.filter)]_vars

\* C4: the write of a sync update from store S for the record its lookup
\* found keeps the record's id and the set of records, leaves the record with
\* top-level name/type/size/utime equal to info and with copies holding
\* exactly one entry, keyed S, made of storeId and info.
C4_ExternalUpdateResetsCopies ==
  [][\A task \in inflight :
       (SyncUpdateWrite(task) /\ task.id \in DOMAIN files)
       => /\ DOMAIN files' = DOMAIN files
          /\ MirrorsInfo(files'[task.id], task.info)
          /\ DOMAIN files'[task.id].copies = {task.store}
          /\ files'[task.id].copies[task.store]
               = Descriptor(task.storeId, task.info)]_vars

C4_Witness ==
  /\ last.op = "syncUpdate" /\ last.result = "ok"
  /\ last.id \in DOMAIN files
  /\ Cardinality(DOMAIN files) = 2

\* C5: a sync remove from store S removes every record whose copies[S] has
\* the reported id as a whole: no such record is left under its id, and no
\* record left holds the reported id under S.
C5_ExternalRemoveDeletesRecord ==
  [][\A store \in StoreNames, storeId \in StoreIds :
       SyncRemove(store, storeId)
       => /\ \A id \in DOMAIN files :
               HoldsCopy(files[id], store, storeId) => id \notin DOMAIN files'
          /\ \A id \in DOMAIN files' : ~HoldsCopy(files'[id], store, storeId)
          /\ \A id \in DOMAIN files :
               ~HoldsCopy(files[id], store, storeId)
               => (id \in DOMAIN files' /\ files'[id] = files[id])]_vars

C5_Witness == last.op = "syncRemove" /\ last.n = 2

\* C6: a sync update or sync remove from store S whose id no record holds
\* under S raises no error, creates no record and changes no record.
C6_SyncLookupMissIsNoOp ==
  [][\A store \in StoreNames, storeId \in StoreIds :
       (/\ \A id \in DOMAIN files : ~HoldsCopy(files[id], store, storeId)
        /\ \/ SyncRemove(store, storeId)
           \/ \E info \in Infos : SyncUpdateFind(store, storeId, info))
       => /\ files' = files
          /\ nextId' = nextId
          /\ inflight' = inflight
          /\ last'.result \in {"ok", "miss"}]_vars

C6_Witness ==
  /\ last.op = "syncRemove" /\ last.n = 0
  /\ \E id \in DOMAIN files :
       \E st \in DOMAIN files[id].copies :
         st # last.store /\ files[id].copies[st]._id = last.storeId

\* C7: a sync insert from store S adds exactly one record, whose top-level
\* name/type/size/utime equal info and whose copies hold exactly one entry,
\* keyed S, made of storeId and info; no existing record changes.
C7_ExternalInsertAddsOneRecord ==
  [][\A store \in StoreNames, storeId \in StoreIds, info \in Infos :
       SyncInsert(store, storeId, info)
       => \E id \in DOMAIN files' \ DOMAIN files :
            /\ DOMAIN files' = DOMAIN files \cup {id}
            /\ MirrorsInfo(files'[id], info)
            /\ DOMAIN files'[id].copies = {store}
            /\ files'[id].copies[store] = Descriptor(storeId, info)
            /\ \A j \in DOMAIN files : files'[j] = files[j]]_vars

C7_Witness ==
  /\ last.op = "syncInsert"
  /\ Cardinality(DOMAIN files) = 2

\* C8: a sync insert from a configured store is always possible while the
\* collection has room, and is accepted with its record created also when
\* the filter rejects the name, type and size of info.
C8_ExternalInsertIsNotFiltered ==
  /\ [](Constructed =>
          \A store \in Range(options.stores), storeId \in StoreIds,
             info \in Infos :
            nextId <= MaxFiles => ENABLED SyncInsert(store, storeId, info))
  /\ [][\A store \in StoreNames, storeId \in StoreIds, info \in Infos :
          (SyncInsert(store, storeId, info) /\ ~IsAllowed(info, options.filter))
          => /\ last'.result = "ok"
             /\ nextId \in DOMAIN files'
             /\ MirrorsInfo(files'[nextId], info)]_vars

C8_Witness ==
  /\ last.op = "syncInsert" /\ last.result = "ok"
  /\ last.id \in DOMAIN files
  /\ ~IsAllowed(files[last.id], options.filter)

\* C9: constructing with an empty store list fails with ConfigurationError
\* and leaves the registry, the sync callbacks and the observer as they were.
C9_EmptyStoresAbortConstruction ==
  [][\A given \in OptionsGiven :
       (given.stores = <<>> /\ Construct(given.stores, given.filter))
       => /\ last'.result = "ConfigurationError"
          /\ UNCHANGED <<registry, callbacks, observed, validators, files>>]_vars

C9_Witness ==
  /\ last.op = "construct" /\ last.result = "ConfigurationError"
  /\ Constructed

\* C10: an untrusted insert of a file the filter rejects fails with
\* AdmissionDenied and leaves the set of records and every record as it was.
C10_DeniedInsertChangesNothing ==
  [][\A info \in Infos :
       (Insert(info) /\ ~IsAllowed(NewFile(info), options.filter))
       => /\ last'.result = "AdmissionDenied"
          /\ files' = files
          /\ nextId' = nextId]_vars

C10_Witness ==
  /\ last.op = "insert" /\ last.result = "AdmissionDenied"
  /\ validators["insert"]
  /\ files # <<>>

\* the stores the collection was configured with
ConfiguredStores == Range(options.stores)

\* at least one but not all of the configured stores hold a copy of the file
PartiallyReplicated(file) ==
  DOMAIN file.copies # {} /\ DOMAIN file.copies # ConfiguredStores

\* C11 as stated: every sync update that finds its record leaves it
\* PartiallyReplicated with only the reporting store current, whatever the
\* number of configured stores.
C11_ExternalUpdateLeavesPartiallyReplicated ==
  (last.op = "syncUpdate" /\ last.result = "ok")
  => /\ DOMAIN files[last.id].copies = {last.store}
     /\ PartiallyReplicated(files[last.id])

\* C11 amended: every sync update that finds its record leaves it with only
\* the reporting store current; the record is then PartiallyReplicated if the
\* collection has more than one store, and has a copy in every configured
\* store if the collection has a single store.
C11_ExternalUpdateLeavesOnlyReporter ==
  (last.op = "syncUpdate" /\ last.result = "ok")
  => /\ DOMAIN files[last.id].copies = {last.store}
     /\ Cardinality(ConfiguredStores) > 1
          => PartiallyReplicated(files[last.id])
     /\ Cardinality(ConfiguredStores) = 1
          => DOMAIN files[last.id].copies = ConfiguredStores

C11_Witness ==
  /\ last.op = "syncUpdate" /\ last.result = "ok"
  /\ Constructed
  /\ Cardinality(ConfiguredStores) = 1

\* C12: a record that was removed never exists again under its id, also when
\* a sync update found it before the removal and writes after it.
C12_DeletedIsTerminal ==
  [][\A id \in 1..MaxFiles :
       (id < nextId /\ id \notin DOMAIN files) => id \notin DOMAIN files']_vars

C12_Witness ==
  /\ last.op = "syncUpdate" /\ last.result = "gone"
  /\ last.id \notin DOMAIN files

\* C13: in every reachable state the keys of every record's copies are names
\* of stores the collection was configured with.
C13_CopiesKeysAreConfiguredStores ==
  Constructed =>
    \A id \in DOMAIN files : DOMAIN files[id].copies \subseteq ConfiguredStores

\* C14: right after an accepted local insert the new record is found under
\* its id with empty copies (Pending).
C14_InsertedRecordIsPending ==
  (last.op = "insert" /\ last.result = "ok")
  => /\ last.id \in DOMAIN files
     /\ DOMAIN files[last.id].copies = {}

C14_Witness ==
  /\ last.op = "insert" /\ last.result = "ok"
  /\ last.id \in DOMAIN files

\* C20: the write of a sync update changes no record but the one its lookup
\* found, also when other records hold the same id under the same store; a
\* sync remove leaves no record that holds the reported id under that store.
C20_ExternalUpdateChangesOneRecord ==
  /\ [][\A task \in inflight :
          SyncUpdateWrite(task)
          => /\ DOMAIN files' = DOMAIN files
             /\ \A j \in DOMAIN files \ {task.id} : files'[j] = files[j]]_vars
  /\ [][\A store \in StoreNames, storeId \in StoreIds :
          SyncRemove(store, storeId)
          => /\ \A id \in DOMAIN files' :
                  ~HoldsCopy(files'[id], store, storeId)
             /\ last'.n = Cardinality({id \in DOMAIN files :
                                         HoldsCopy(files[id], store, storeId)})
             /\ Cardinality(DOMAIN files') = Cardinality(DOMAIN files) - last'.n
     ]_vars

C20_Witness ==
  /\ last.op = "syncUpdate" /\ last.result = "ok"
  /\ last.id \in DOMAIN files
  /\ \E j \in DOMAIN files \ {last.id} :
       /\ HoldsCopy(files[j], last.store, last.storeId)
       /\ files[j] # files[last.id]

\* C18 as stated: construction registers no allow function, so the insert
\* that follows a successful construction with no registration in between is
\* denied, and every request of a kind with no allow function is denied.
C18_DeniedUntilAllowRegistered ==
  /\ [][\A given \in OptionsGiven :
          Construct(given.stores, given.filter) => validators' = validators]_vars
  /\ [][\A info \in Infos :
          (Insert(info) /\ last.op = "construct")
          => (last'.result # "ok" /\ files' = files)]_vars

\* C18 amended: a successful construction registers allow functions for
\* insert, update and remove exactly when the insecure package is in use;
\* after it only the application's allow calls register one; an untrusted
\* request of a kind with no allow function is denied and changes nothing.
C18_DeniedUntilAllowUnlessInsecure ==
  /\ [][\A given \in OptionsGiven :
          Construct(given.stores, given.filter)
          => IF last'.result = "ok"
             THEN validators' = [k \in Kinds |-> insecure]
             ELSE validators' = validators]_vars
  /\ [][\A k \in Kinds :
          (~validators[k] /\ validators'[k])
          => last'.op \in {"construct", "allow"}]_vars
  /\ [][\A info \in Infos :
          (Insert(info) /\ ~validators["insert"])
          => (last'.result # "ok" /\ files' = files)]_vars
  /\ [][\A id \in DOMAIN files, fields \in UpdateFieldSets, info \in Infos :
          (Update(id, fields, info) /\ ~validators["update"])
          => (last'.result # "ok" /\ files' = files)]_vars
  /\ [][\A id \in DOMAIN files :
          (Remove(id) /\ ~validators["remove"])
          => (last'.result = "AuthorizationDenied" /\ files' = files)]_vars

C18_Witness ==
  /\ ~insecure
  /\ last.op = "remove" /\ last.result = "AuthorizationDenied"
  /\ validators["insert"] /\ ~validators["remove"]
  /\ last.id \in DOMAIN files

\* the candidate's lowercase extension, as the filter engine compares it
LowerExtension(c) == Str(ToLowerCase(GetExtension(c.name)))

\* the deny lists of the rule set name the candidate
DeniedBy(c, ruleSet) ==
  \/ InList(ruleSet.deny.extensions, LowerExtension(c))
  \/ MatchesAny(ruleSet.deny.contentTypes, c.type)

\* the allow lists of the rule set name the candidate, and its size is
\* within maxSize
AllowedBy(c, ruleSet) ==
  /\ \/ InList(ruleSet.allow.extensions, LowerExtension(c))
     \/ MatchesAny(ruleSet.allow.contentTypes, c.type)
  /\ ruleSet.maxSize.t = "number" => c.size <= ruleSet.maxSize.n

\* C15: an untrusted insert of a candidate whose extension is in
\* deny.extensions or whose content type matches deny.contentTypes is
\* rejected by the filter, also when the allow lists name it and its size is
\* within maxSize.
C15_DenyTakesPrecedence ==
  [][\A c \in Candidates :
       (/\ Insert(c)
        /\ Truthy(options.filter)
        /\ DeniedBy(c, options.filter))
       => (last'.result = "AdmissionDenied" /\ files' = files)]_vars

C15_Witness ==
  /\ last.op = "insert" /\ last.result = "AdmissionDenied"
  /\ validators["insert"]
  /\ Truthy(options.filter)
  /\ \E c \in Candidates :
       DeniedBy(c, options.filter) /\ AllowedBy(c, options.filter)
  /\ \A c \in Candidates :
       DeniedBy(c, options.filter) \/ IsAllowed(c, options.filter)

\* the entries of a list, in lower case where they are strings
LowerEntries(v) ==
  {IF v.v[i].t = "string" THEN Str(ToLowerCase(v.v[i].s)) ELSE v.v[i] :
     i \in 1..Len(v.v)}

\* two content type lists that differ in the order of their entries at most
SameUpToOrder(v, w) ==
  IF IsArray(v) /\ IsArray(w)
  THEN Len(v.v) = Len(w.v) /\ Range(v.v) = Range(w.v)
  ELSE v = w

\* two extension lists that differ in the order and the letter case of their
\* entries at most
SameUpToOrderAndCase(v, w) ==
  IF IsArray(v) /\ IsArray(w)
  THEN Len(v.v) = Len(w.v) /\ LowerEntries(v) = LowerEntries(w)
  ELSE v = w

SameRules(a, b) ==
  IF IsPlainObject(a) /\ IsPlainObject(b)
  THEN /\ SameUpToOrderAndCase(a.extensions, b.extensions)
       /\ SameUpToOrder(a.contentTypes, b.contentTypes)
  ELSE a = b

\* two filter options that differ only in the order of their list entries or
\* in the letter case of their extensions
Equivalent(g, h) ==
  IF IsPlainObject(g) /\ IsPlainObject(h)
  THEN /\ SameRules(g.allow, h.allow)
       /\ SameRules(g.deny, h.deny)
       /\ g.maxSize = h.maxSize
  ELSE g = h

\* every entry of the extension list is a lowercase string
AllLower(list) ==
  \A i \in 1..Len(list.v) : list.v[i] = Str(ToLowerCase(list.v[i].s))

\* C16: the rule set a successful construction stores for a filter option
\* has lowercase extensions only and gives, for every candidate, the result of
\* the rule set of every option that differs from it only in the order of its
\* list entries or the letter case of its extensions.
C16_OrderAndCaseDoNotMatter ==
  [][\A g \in FiltersGiven, h \in FiltersGiven :
       (/\ Construct(FilterStores, g)
        /\ last'.result = "ok"
        /\ Truthy(g)
        /\ Equivalent(g, h))
       => /\ AllLower(options'.filter.allow.extensions)
          /\ AllLower(options'.filter.deny.extensions)
          /\ \A c \in Candidates :
               IsAllowed(c, options'.filter) = IsAllowed(c, NormalizeFilter(h))
    ]_vars

C16_Witness ==
  /\ last.op = "construct" /\ last.result = "ok"
  /\ options.filter = NormalizeFilter(BothListsFilter)
  /\ Equivalent(BothListsFilter, BothListsSwappedFilter)
  /\ options.filter # NormalizeFilter(BothListsSwappedFilter)
  /\ options.filter # BothListsFilter

\* every list of the stored rule set holds strings only, and maxSize is a
\* number or null
NothingMalformed(ruleSet) ==
  /\ \A list \in {ruleSet.allow.extensions, ruleSet.allow.contentTypes,
                  ruleSet.deny.extensions, ruleSet.deny.contentTypes} :
       IsArray(list) /\ \A i \in 1..Len(list.v) : list.v[i].t = "string"
  /\ ruleSet.maxSize.t \in {"number", "null"}

\* C17: the first construction with a non-empty store list succeeds whatever
\* the filter option is, and the rule set it stores has a permissive default
\* in the place of every malformed sub-field.
C17_FilterNeverFailsConstruction ==
  [][\A f \in FiltersGiven :
       (Construct(FilterStores, f) /\ ~Constructed)
       => /\ last'.result = "ok"
          /\ Truthy(f) => NothingMalformed(options'.filter)]_vars

\* another sync update of the same record from another store is between its
\* lookup and its write, or was the last to write
Raced(task) ==
  \/ \E other \in inflight : other.store # task.store /\ other.id = task.id
  \/ /\ last.op = "syncUpdate" /\ last.result = "ok"
     /\ last.store # task.store /\ last.id = task.id

\* C19: when sync updates from two stores run at the same time for a record,
\* every write of one of them leaves the record under its id with exactly one
\* copies entry, that of the writer, and with top-level name/type/size/utime
\* equal to that entry and to the writer's info: nothing of the other is left.
C19_ConcurrentUpdatesLastWriterWins ==
  [][\A task \in inflight :
       (SyncUpdateWrite(task) /\ task.id \in DOMAIN files /\ Raced(task))
       => /\ DOMAIN files' = DOMAIN files
          /\ DOMAIN files'[task.id].copies = {task.store}
          /\ files'[task.id].copies[task.store]._id = task.storeId
          /\ MirrorsInfo(files'[task.id], files'[task.id].copies[task.store])
          /\ MirrorsInfo(files'[task.id], task.info)]_vars

C19_Witness ==
  /\ last.op = "syncUpdate" /\ last.result = "ok"
  /\ last.id \in DOMAIN files
  /\ \E other \in inflight :
       /\ other.id = last.id
       /\ other.store # last.store
       /\ other.store \notin DOMAIN files[last.id].copies
       /\ ~MirrorsInfo(files[last.id], other.info)

====
